---- MODULE Spec2Model ----
(***************************************************************************)
(* ComfyUI-LoadImagesMultiPath: the directory scanner, the single          *)
(* directory loader, the two multi-directory load nodes and the split      *)
(* performed by the save node, as state machines over an abstract file     *)
(* system.                                                                 *)
(*                                                                         *)
(* Strings of the program (paths, file names, slot values) are sequences   *)
(* of one-character strings, so that stripping, extension splitting and    *)
(* lexicographic sorting are computed character by character.              *)
(***************************************************************************)
EXTENDS Integers, Sequences, FiniteSets, TLC

VARIABLES
    pc,                 \* position of the operation being run
    fs,                 \* file system: directory path -> entries in os.listdir order
    node,               \* "Upload" or "Path": which load node is invoked
    path_count,         \* load_images_multi: path_count
    slots,              \* load_images_multi: kwargs directory_1 .. directory_<path_count>
    image_load_cap,     \* kwargs image_load_cap
    skip_first_images,  \* kwargs skip_first_images
    select_every_nth,   \* kwargs select_every_nth
    i,                  \* loop index of load_images_multi / save_images_multi
    all_images,         \* load_images_multi: list of per-directory image batches
    all_masks,          \* load_images_multi: list of per-directory mask batches
    total_frame_count,  \* load_images_multi: running frame total
    frame_counts,       \* load_images_multi: manifest frame counts being built
    directory_names,    \* load_images_multi: manifest names being built
    target_size,        \* load_images_multi: geometry of first loaded directory, or None
    loaded_slots,       \* history: slot indexes whose directory was appended (not program state)
    outcome,            \* what the operation returned or raised; None while running
    listing,            \* scanner input: directory entries in the order os.listdir yields them
    dir_files,          \* scanner output
    images,             \* save_images_multi: the image batch handed in
    path_info,          \* save_images_multi: the manifest handed in
    current_idx,        \* save_images_multi: slice cursor
    segments,           \* save_images_multi: (dir_name, dir_images) pairs taken so far
    output_format,      \* save_images_multi: "images" or "mp4"
    encoder,            \* whether get_ffmpeg_path finds an encoder on this host
    output_paths,       \* save_images_multi: paths produced so far
    disk,               \* output files written: file key -> content
    arg_directory,      \* load_images_from_directory: argument directory
    arg_size_check,     \* load_images_from_directory: argument size_check
    content,            \* file system: path of a regular file -> its bytes
    digest,             \* IS_CHANGED: what the latest evaluation returned or raised
    prev_digest,        \* history: what the evaluation before the latest gave
    since,              \* history: changes made after the latest evaluation
    between,            \* history: changes made between the two latest evaluations
    prev_fs,            \* history: the file system at the evaluation before the latest
    prev_content,       \* history: the files' bytes at the evaluation before the latest
    source_image,       \* the image file that is decoded: mode, size, pixels
    target_geometry,    \* load_images_from_directory: (target_width, target_height)
    text                \* the string handed to strip_path / sanitize_filename

vars == << pc, fs, node, path_count, slots, image_load_cap, skip_first_images,
           select_every_nth, i, all_images, all_masks, total_frame_count,
           frame_counts, directory_names, target_size, loaded_slots, outcome,
           listing, dir_files, images, path_info, current_idx, segments,
           output_format, encoder, output_paths, disk, arg_directory, arg_size_check,
           content, digest, prev_digest, since, between, prev_fs, prev_content,
           source_image, target_geometry, text >>

loadVars == << node, path_count, slots, image_load_cap, i, all_images, all_masks,
               total_frame_count, frame_counts, directory_names, target_size,
               loaded_slots >>
scanVars == << listing, dir_files >>
saveVars == << images, path_info, current_idx, segments, output_format, encoder,
               output_paths, disk >>
dirVars == << arg_directory, arg_size_check >>
changedVars == << content, digest, prev_digest, since, between, prev_fs, prev_content >>
pureVars == << source_image, target_geometry, text >>

None == "None"

-----------------------------------------------------------------------------
(* Bounds of the explored inputs *)

MaxPathCount == 2
MaxCap == 1
MaxSkip == 1
MaxStride == 2

-----------------------------------------------------------------------------
(* Characters and strings *)

\* Code point of each character the model uses (Python compares str by code point).
Ord(c) ==
    CASE c = " "  -> 32  [] c = "\"" -> 34  [] c = "'"  -> 39
      [] c = "-"  -> 45  [] c = "."  -> 46  [] c = "/"  -> 47
      [] c = "0"  -> 48  [] c = "1"  -> 49  [] c = "2"  -> 50
      [] c = "3"  -> 51  [] c = "4"  -> 52
      [] c = "G"  -> 71  [] c = "N"  -> 78  [] c = "P"  -> 80
      [] c = "\\" -> 92
      [] c = "a"  -> 97  [] c = "b"  -> 98  [] c = "c"  -> 99
      [] c = "d"  -> 100 [] c = "e"  -> 101 [] c = "f"  -> 102
      [] c = "g"  -> 103 [] c = "j"  -> 106 [] c = "k"  -> 107
      [] c = "n"  -> 110 [] c = "p"  -> 112 [] c = "s"  -> 115
      [] c = "t"  -> 116 [] c = "x"  -> 120 [] c = "y"  -> 121
      [] c = "z"  -> 122

\* str.lower() on one character
LowerChar(c) ==
    CASE c = "G" -> "g" [] c = "N" -> "n" [] c = "P" -> "p" [] OTHER -> c

Lower(s) == [k \in 1..Len(s) |-> LowerChar(s[k])]

\* Python's s < t on strings
RECURSIVE StrLess(_, _)
StrLess(s, t) ==
    IF t = << >> THEN FALSE
    ELSE IF s = << >> THEN TRUE
    ELSE IF Ord(Head(s)) < Ord(Head(t)) THEN TRUE
    ELSE IF Ord(Head(s)) > Ord(Head(t)) THEN FALSE
    ELSE StrLess(Tail(s), Tail(t))

RECURSIVE LStrip(_, _)
LStrip(s, chars) ==
    IF s # << >> /\ Head(s) \in chars THEN LStrip(Tail(s), chars) ELSE s

RECURSIVE RStrip(_, _)
RStrip(s, chars) ==
    IF s # << >> /\ s[Len(s)] \in chars
    THEN RStrip(SubSeq(s, 1, Len(s) - 1), chars) ELSE s

\* str.strip(chars)
StripChars(s, chars) == RStrip(LStrip(s, chars), chars)

Whitespace == {" "}

\* one layer of matching surrounding quotes is removed
strip_path_OneLayer(path) ==
    IF path = None THEN None
    ELSE LET w == StripChars(path, Whitespace)
             p == IF Len(w) >= 2 /\ w[1] = w[Len(w)] /\ w[1] \in {"\"", "'"}
                  THEN SubSeq(w, 2, Len(w) - 1) ELSE w
         IN IF p # << >> THEN p ELSE None

\* utils.strip_path
strip_path(path) ==
    IF path = None THEN None
    ELSE LET p == StripChars(StripChars(StripChars(path, Whitespace), {"\""}), {"'"})
         IN IF p # << >> THEN p ELSE None

\* index of the last occurrence of character c in s, 0 when absent
RECURSIVE LastIndexOf(_, _)
LastIndexOf(s, c) ==
    IF s = << >> THEN 0
    ELSE IF s[Len(s)] = c THEN Len(s)
    ELSE LastIndexOf(SubSeq(s, 1, Len(s) - 1), c)

\* os.path.splitext(f)[1]: from the last dot, unless only dots precede it
splitext_ext(f) ==
    LET d == LastIndexOf(f, ".")
    IN IF d = 0 \/ (\A k \in 1..(d - 1) : f[k] = ".") THEN << >>
       ELSE SubSeq(f, d, Len(f))

\* os.path.join(directory, f) on a POSIX host
path_join(directory, f) ==
    IF directory # << >> /\ directory[Len(directory)] = "/"
    THEN directory \o f ELSE directory \o <<"/">> \o f

\* os.path.basename on a POSIX host
basename(p) == SubSeq(p, LastIndexOf(p, "/") + 1, Len(p))

\* FolderOfImages.IMG_EXTENSIONS of the host library
IMG_EXTENSIONS ==
    { <<".", "j", "p", "g">>, <<".", "j", "p", "e", "g">>, <<".", "p", "n", "g">>,
      <<".", "p", "p", "m">>, <<".", "b", "m", "p">>, <<".", "p", "g", "m">>,
      <<".", "t", "i", "f">>, <<".", "t", "i", "f", "f">>, <<".", "w", "e", "b", "p">> }

-----------------------------------------------------------------------------
(* Directory scanner: utils.get_sorted_dir_files_from_directory *)

\* A directory entry as the scanner and the loader see it.
Entry(name, isfile, decodable, width, height) ==
    [name |-> name, isfile |-> isfile, decodable |-> decodable,
     width |-> width, height |-> height]

\* list.sort() on path strings: insertion into a sorted list, stable
RECURSIVE InsertSorted(_, _)
InsertSorted(sorted, p) ==
    IF sorted = << >> THEN <<p>>
    ELSE IF StrLess(p, Head(sorted)) THEN <<p>> \o sorted
    ELSE <<Head(sorted)>> \o InsertSorted(Tail(sorted), p)

\* the list is returned in listing order: the sort is left out
SortPaths_Unsorted(ps) == ps

RECURSIVE SortPaths(_)
SortPaths(ps) ==
    IF ps = << >> THEN << >>
    ELSE InsertSorted(SortPaths(SubSeq(ps, 1, Len(ps) - 1)), ps[Len(ps)])

\* the loop of lines 88-93: keep regular files with an allowed lower-cased extension
RECURSIVE MatchingPaths(_, _, _)
MatchingPaths(directory, entries, extensions) ==
    IF entries = << >> THEN << >>
    ELSE LET f == Head(entries)
             rest == MatchingPaths(directory, Tail(entries), extensions)
         IN IF f.isfile /\ Lower(splitext_ext(f.name)) \in extensions
            THEN <<path_join(directory, f.name)>> \o rest
            ELSE rest

\* dir_files[skip:]
DropFirst(s, n) == IF n >= Len(s) THEN << >> ELSE SubSeq(s, n + 1, Len(s))

\* dir_files[::n]
EveryNth(s, n) == [k \in 1..((Len(s) + n - 1) \div n) |-> s[(k - 1) * n + 1]]

\* the cap truncates nothing
TakeFirst_All(s, n) == s

\* dir_files[:n]
TakeFirst(s, n) == IF n >= Len(s) THEN s ELSE SubSeq(s, 1, n)

get_sorted_dir_files_from_directory(directory, entries, skip_first_files, nth, extensions) ==
    LET sorted  == SortPaths(MatchingPaths(directory, entries, extensions))
        skipped == IF skip_first_files > 0 THEN DropFirst(sorted, skip_first_files) ELSE sorted
    IN IF nth > 1 THEN EveryNth(skipped, nth) ELSE skipped

-----------------------------------------------------------------------------
(* The file system the nodes run on *)

\* "abc" written as the character sequence the model computes with
S_a == <<"a">>
S_b == <<"b">>
S_c == <<"c">>
S_e == <<"e">>
S_o == <<"o">>
S_x == <<"x">>

\* Directory path -> entries, in the order os.listdir yields them (not sorted).
\*   a: three images, the last one of another size and with an upper-case suffix
\*   b: two images of another geometry than a's and a text file
\*   c: one image of b's geometry
\*   e: exists, holds no matching regular file (a text file and a sub-directory)
\*   o: exists, holds nothing
\*   x: a good image followed in sort order by one that does not decode
\* Every other path does not exist.
InitialFS ==
    (S_a :> << Entry(<<"b", ".", "p", "n", "g">>, TRUE, TRUE, 2, 2),
               Entry(<<"c", ".", "P", "N", "G">>, TRUE, TRUE, 1, 1),
               Entry(<<"a", ".", "p", "n", "g">>, TRUE, TRUE, 2, 2) >>)
 @@ (S_b :> << Entry(<<"y", ".", "j", "p", "g">>, TRUE, TRUE, 1, 2),
               Entry(<<"n", ".", "t", "x", "t">>, TRUE, TRUE, 2, 2),
               Entry(<<"x", ".", "p", "n", "g">>, TRUE, TRUE, 1, 2) >>)
 @@ (S_c :> << Entry(<<"k", ".", "p", "n", "g">>, TRUE, TRUE, 1, 2) >>)
 @@ (S_e :> << Entry(<<"n", ".", "t", "x", "t">>, TRUE, TRUE, 1, 1),
               Entry(<<"s", ".", "p", "n", "g">>, FALSE, FALSE, 0, 0) >>)
 @@ (S_o :> << >>)
 @@ (S_x :> << Entry(<<"b", ".", "p", "n", "g">>, TRUE, FALSE, 2, 2),
               Entry(<<"a", ".", "p", "n", "g">>, TRUE, TRUE, 2, 2) >>)

\* The OS ignores trailing separators when it resolves a directory path.
ResolveDir(p) == RStrip(p, {"/"})

\* os.path.isdir
os_path_isdir(filesystem, p) == ResolveDir(p) \in DOMAIN filesystem

\* os.listdir
os_listdir(filesystem, p) == filesystem[ResolveDir(p)]

\* the variables of the single directory loader while another operation runs
DirIdle == arg_directory = << >> /\ arg_size_check = TRUE

\* IS_CHANGED has not been evaluated
Unevaluated == [kind |-> "unevaluated"]

\* the variables of the change detection while another operation runs
ChangedIdle ==
    /\ content = << >>
    /\ digest = Unevaluated
    /\ prev_digest = Unevaluated
    /\ since = << >>
    /\ between = << >>
    /\ prev_fs = << >>
    /\ prev_content = << >>

\* the variables of the per-file and per-string operations while another runs
PureIdle ==
    /\ source_image = << >>
    /\ target_geometry = << >>
    /\ text = << >>

-----------------------------------------------------------------------------
(* Single directory loader: utils.load_images_from_directory *)

Raised(type, msg) == [raised |-> TRUE, error |-> [type |-> type, msg |-> msg]]

MsgCannotBeFound == "Directory cannot be found."
MsgNoFiles == "No files in directory."
MsgNoImages == "No images could be loaded from any of the specified directories."
MsgDecode == "cannot identify image file"
MsgSizes == "Sizes of tensors must match"
MsgSizesDiffer == "Images in directory have different sizes"

\* The entry behind a scanned path
EntryAt(directory, entries, filepath) ==
    CHOOSE e \in {entries[k] : k \in 1..Len(entries)} :
        path_join(directory, e.name) = filepath

\* One decoded frame: which file it came from and its geometry
Frame(src, width, height) == [src |-> src, width |-> width, height |-> height]

\* torch.cat(tensors, dim=0) succeeds only when every tensor has the same height and width
SameGeometry(frames) ==
    \A j, k \in 1..Len(frames) :
        frames[j].width = frames[k].width /\ frames[j].height = frames[k].height

\* no file is resized to the first file's geometry
LoadedFrames_NoResize(directory, entries, files, size_check) ==
    [k \in 1..Len(files) |->
        LET e == EntryAt(directory, entries, files[k])
        IN Frame(files[k], e.width, e.height)]

\* lines 179-235: the per-file loop; the first selected file sets the target,
\* every later file of another size is resized (image and mask) when size_check
LoadedFrames(directory, entries, files, size_check) ==
    LET first == EntryAt(directory, entries, files[1])
    IN [k \in 1..Len(files) |->
          LET e == EntryAt(directory, entries, files[k])
          IN IF size_check /\ (e.width # first.width \/ e.height # first.height)
             THEN Frame(files[k], first.width, first.height)
             ELSE Frame(files[k], e.width, e.height)]

\* no file is ever reported as failing to decode
DecodeFailure_Never(directory, entries, files) == FALSE

\* lines 181-186: Image.open / convert raise on a file that does not decode, and
\* nothing in load_images_from_directory catches it
DecodeFailure(directory, entries, files) ==
    \E k \in 1..Len(files) : ~EntryAt(directory, entries, files[k]).decodable

load_images_from_directory(filesystem, directory, cap, skip, nth, size_check) ==
    IF ~os_path_isdir(filesystem, directory)
    THEN Raised("FileNotFoundError", MsgCannotBeFound)
    ELSE
      LET entries == os_listdir(filesystem, directory)
          scanned == get_sorted_dir_files_from_directory(directory, entries, skip, nth,
                                                         IMG_EXTENSIONS)
      IN IF Len(scanned) = 0
         THEN Raised("FileNotFoundError", MsgNoFiles)
         ELSE
           LET files == IF cap > 0 THEN TakeFirst(scanned, cap) ELSE scanned
               first == EntryAt(directory, entries, files[1])
           IN IF DecodeFailure(directory, entries, files)
              THEN Raised("UnidentifiedImageError", MsgDecode)
              ELSE
                LET frames == LoadedFrames(directory, entries, files, size_check)
                IN IF ~SameGeometry(frames)
                   THEN Raised("ValueError", MsgSizesDiffer)
                   ELSE [raised |-> FALSE,
                         images |-> frames,
                         masks |-> frames,
                         frame_count |-> Len(frames),
                         size |-> <<first.width, first.height>>,
                         has_alpha |-> FALSE]

-----------------------------------------------------------------------------
(* Multi directory load nodes: load_nodes.LoadImagesMultiPathUpload and    *)
(* load_nodes.LoadImagesMultiPathPath, method load_images_multi            *)

Nodes == {"Upload", "Path"}

\* Values a directory slot is given: nothing, blanks, quotes around nothing,
\* plain / quoted / slash-terminated names of directories, a missing directory.
SlotValues ==
    { << >>,
      <<" ">>,
      <<"\"", "\"">>,
      <<"a">>,
      <<" ", "\"", "b", "\"">>,
      <<"c", "/">>,
      <<"e">>,
      <<"x">>,
      <<"z">> }

\* the test that skips a slot as empty: `directory == ""` (Upload),
\* `directory.strip() == ""` (Path)
IsEmptySlot(n, directory) ==
    IF n = "Upload" THEN directory = << >>
    ELSE StripChars(directory, Whitespace) = << >>

\* folder_paths.get_annotated_filepath of the host: a name is resolved inside the
\* host's input directory (the root of the modelled file system); None has no
\* `endswith` and raises.
get_annotated_filepath(name) ==
    IF name = None THEN Raised("AttributeError", "NoneType has no attribute endswith")
    ELSE [raised |-> FALSE, path |-> name]

\* full_path of a non-empty slot: line 87 (Upload), line 250 (Path)
FullPath(n, directory) ==
    IF n = "Upload" THEN get_annotated_filepath(strip_path(directory))
    ELSE [raised |-> FALSE, path |-> strip_path(directory)]

\* os.path.isdir(full_path) of lines 89 / 252: raises TypeError on None
IsDirCheck(filesystem, full_path) ==
    IF full_path = None
    THEN Raised("TypeError", "stat: path should be string, not NoneType")
    ELSE [raised |-> FALSE, isdir |-> os_path_isdir(filesystem, full_path)]

\* os.path.basename(full_path.rstrip('/\\'))
DirName(full_path) == basename(RStrip(full_path, {"/", "\\"}))

\* common_upscale(images, target_size[0], target_size[1], ...) on a batch
Upscale(batch, size) == [k \in 1..Len(batch) |-> Frame(batch[k].src, size[1], size[2])]

\* the batches are joined last directory first
RECURSIVE Concat_Reversed(_)
Concat_Reversed(batches) ==
    IF batches = << >> THEN << >> ELSE Concat_Reversed(Tail(batches)) \o Head(batches)

\* torch.cat(list_of_batches, dim=0) when the geometries agree
RECURSIVE Concat(_)
Concat(batches) ==
    IF batches = << >> THEN << >> ELSE Head(batches) \o Concat(Tail(batches))

RECURSIVE Sum(_)
Sum(counts) == IF counts = << >> THEN 0 ELSE Head(counts) + Sum(Tail(counts))

MultiPathInfo(counts, names) == [frame_counts |-> counts, directory_names |-> names]

\* the accumulators of load_images_multi before the loop (lines 66-75)
EmptyAcc ==
    [all_images |-> << >>, all_masks |-> << >>, total_frame_count |-> 0,
     frame_counts |-> << >>, directory_names |-> << >>, target_size |-> None,
     aborted |-> FALSE, error |-> None]

\* `raise` leaving load_images_multi from inside the loop
AbortWith(acc, error) == [acc EXCEPT !.aborted = TRUE, !.error = error]

\* the empty slot is recorded in the manifest with no frames
OnEmptySlot_Recorded(acc) ==
    [acc EXCEPT !.frame_counts = Append(@, 0), !.directory_names = Append(@, << >>)]

\* lines 82-84 / 246-248: an empty slot is logged and skipped
OnEmptySlot(acc) == acc

\* the missing directory ends the call
OnMissingDirectory_Raise(acc) ==
    AbortWith(acc, [type |-> "FileNotFoundError", msg |-> MsgCannotBeFound])

\* lines 89-91 / 252-254: a slot whose directory is not found is logged and skipped
OnMissingDirectory(acc) == acc

\* the exception of the directory's load leaves load_images_multi
OnLoadError_Raise(acc, error) == AbortWith(acc, error)

\* lines 132-137 / 292-297: any exception of the directory's load is logged and
\* the loop continues with the next slot
OnLoadError(acc, error) == acc

\* every loaded directory sets the target geometry anew
AppendDirectory_Retarget(acc, full_path, r) ==
    [acc EXCEPT !.target_size = r.size,
                !.all_images = Append(@, r.images),
                !.all_masks = Append(@, r.masks),
                !.total_frame_count = @ + r.frame_count,
                !.frame_counts = Append(@, r.frame_count),
                !.directory_names = Append(@, DirName(full_path))]

\* the directory is appended but its frame count is not recorded in the manifest
AppendDirectory_NoCount(acc, full_path, r) ==
    LET target == IF acc.target_size = None THEN r.size ELSE acc.target_size
        imgs   == IF r.size # target THEN Upscale(r.images, target) ELSE r.images
    IN [acc EXCEPT !.target_size = target,
                   !.all_images = Append(@, imgs),
                   !.all_masks = Append(@, r.masks),
                   !.total_frame_count = @ + r.frame_count,
                   !.directory_names = Append(@, DirName(full_path))]

\* lines 103-128: fold one loaded directory into the accumulators
AppendDirectory(acc, full_path, r) ==
    LET target == IF acc.target_size = None THEN r.size ELSE acc.target_size
        imgs   == IF r.size # target THEN Upscale(r.images, target) ELSE r.images
    IN [acc EXCEPT !.target_size = target,
                   !.all_images = Append(@, imgs),
                   !.all_masks = Append(@, r.masks),
                   !.total_frame_count = @ + r.frame_count,
                   !.frame_counts = Append(@, r.frame_count),
                   !.directory_names = Append(@, DirName(full_path))]

\* one iteration of `for i in range(1, path_count + 1)` (lines 78-137 / 242-297)
StepSlot(n, filesystem, acc, directory, cap, skip, nth) ==
    IF IsEmptySlot(n, directory) THEN OnEmptySlot(acc)
    ELSE
      LET fp == FullPath(n, directory)
      IN IF fp.raised THEN AbortWith(acc, fp.error)
         ELSE
           LET chk == IsDirCheck(filesystem, fp.path)
           IN IF chk.raised THEN AbortWith(acc, chk.error)
              ELSE IF ~chk.isdir THEN OnMissingDirectory(acc)
              ELSE
                LET r == load_images_from_directory(filesystem, fp.path, cap, skip, nth, TRUE)
                IN IF r.raised THEN OnLoadError(acc, r.error)
                   ELSE AppendDirectory(acc, fp.path, r)

\* lines 142-151 / 302-310: concatenate and return; torch.cat raises when the
\* batches differ in height or width
Combine(acc) ==
    IF ~SameGeometry(Concat(acc.all_images)) \/ ~SameGeometry(Concat(acc.all_masks))
    THEN [kind |-> "raise", error |-> [type |-> "RuntimeError", msg |-> MsgSizes]]
    ELSE [kind |-> "return",
          images |-> Concat(acc.all_images),
          masks |-> Concat(acc.all_masks),
          frame_count |-> acc.total_frame_count,
          path_info |-> MultiPathInfo(acc.frame_counts, acc.directory_names)]

\* the check for an empty result is left out: torch.cat gets an empty list
Finish_NoCheck(acc) ==
    IF Len(acc.all_images) = 0
    THEN [kind |-> "raise",
          error |-> [type |-> "RuntimeError", msg |-> "expected a non-empty list of Tensors"]]
    ELSE Combine(acc)

\* lines 139-151 / 299-310: after the loop
Finish(acc) ==
    IF Len(acc.all_images) = 0
    THEN [kind |-> "raise", error |-> [type |-> "FileNotFoundError", msg |-> MsgNoImages]]
    ELSE Combine(acc)

\* the loop of lines 78-137 / 242-297 over the slots that are left
RECURSIVE RunSlots(_, _, _, _, _, _, _)
RunSlots(n, filesystem, acc, slotseq, cap, skip, nth) ==
    IF slotseq = << >> \/ acc.aborted THEN acc
    ELSE RunSlots(n, filesystem,
                  StepSlot(n, filesystem, acc, Head(slotseq), cap, skip, nth),
                  Tail(slotseq), cap, skip, nth)

\* load_images_multi as a function of its inputs: what it returns or raises
load_images_multi(n, filesystem, slotseq, cap, skip, nth) ==
    LET acc == RunSlots(n, filesystem, EmptyAcc, slotseq, cap, skip, nth)
    IN IF acc.aborted THEN [kind |-> "raise", error |-> acc.error] ELSE Finish(acc)

\* the accumulators as the state holds them
Acc ==
    [all_images |-> all_images, all_masks |-> all_masks,
     total_frame_count |-> total_frame_count, frame_counts |-> frame_counts,
     directory_names |-> directory_names, target_size |-> target_size,
     aborted |-> FALSE, error |-> None]

LoadUnchanged == << fs, node, path_count, slots, image_load_cap, skip_first_images,
                    select_every_nth, listing, dir_files, images, path_info,
                    current_idx, segments, output_format, encoder, output_paths,
                    disk, arg_directory, arg_size_check, content, digest, prev_digest,
                    since, between, prev_fs, prev_content, source_image,
                    target_geometry, text >>

\* the loop body runs for slot i
ProcessSlot ==
    /\ pc = "load_loop"
    /\ i <= path_count
    /\ UNCHANGED LoadUnchanged
    /\ \E acc \in { StepSlot(node, fs, Acc, slots[i], image_load_cap, skip_first_images,
                             select_every_nth) } :
          IF acc.aborted
          THEN /\ pc' = "done"
               /\ outcome' = [kind |-> "raise", error |-> acc.error]
               /\ UNCHANGED << i, all_images, all_masks, total_frame_count, frame_counts,
                               directory_names, target_size, loaded_slots >>
          ELSE /\ all_images' = acc.all_images
               /\ all_masks' = acc.all_masks
               /\ total_frame_count' = acc.total_frame_count
               /\ frame_counts' = acc.frame_counts
               /\ directory_names' = acc.directory_names
               /\ target_size' = acc.target_size
               /\ loaded_slots' = IF Len(acc.all_images) > Len(all_images)
                                  THEN Append(loaded_slots, i) ELSE loaded_slots
               /\ i' = i + 1
               /\ UNCHANGED << pc, outcome >>

\* the loop is over: raise or concatenate and return
FinishLoad ==
    /\ pc = "load_loop"
    /\ i > path_count
    /\ pc' = "done"
    /\ outcome' = Finish(Acc)
    /\ UNCHANGED LoadUnchanged
    /\ UNCHANGED << i, all_images, all_masks, total_frame_count, frame_counts,
                    directory_names, target_size, loaded_slots >>

SlotAssignments == UNION { [1..n -> SlotValues] : n \in 1..MaxPathCount }

Init ==
    /\ pc = "load_loop"
    /\ fs = InitialFS
    /\ node \in Nodes
    /\ slots \in SlotAssignments
    /\ path_count = Len(slots)
    /\ image_load_cap \in 0..MaxCap
    /\ skip_first_images \in 0..MaxSkip
    /\ select_every_nth \in 1..MaxStride
    /\ i = 1
    /\ all_images = << >>
    /\ all_masks = << >>
    /\ total_frame_count = 0
    /\ frame_counts = << >>
    /\ directory_names = << >>
    /\ target_size = None
    /\ loaded_slots = << >>
    /\ outcome = None
    /\ listing = << >>
    /\ dir_files = << >>
    /\ images = << >>
    /\ path_info = MultiPathInfo(<< >>, << >>)
    /\ current_idx = 0
    /\ segments = << >>
    /\ output_format = "images"
    /\ encoder = "found"
    /\ output_paths = << >>
    /\ disk = << >>
    /\ DirIdle
    /\ ChangedIdle
    /\ PureIdle

Next == ProcessSlot \/ FinishLoad

Spec == Init /\ [][Next]_vars

-----------------------------------------------------------------------------
(* The scanner on its own: any directory content, in any listing order *)

ScanDir == <<"d">>

F_1png == <<"1", ".", "p", "n", "g">>
F_2PNG == <<"2", ".", "P", "N", "G">>
F_Gjpg == <<"G", ".", "j", "p", "g">>
F_apng == <<"a", ".", "p", "n", "g">>
F_bpng == <<"b", ".", "p", "n", "g">>
F_ntxt == <<"n", ".", "t", "x", "t">>
F_spng == <<"s", ".", "p", "n", "g">>

\* Entries a scanned directory may hold: five images, a text file and a
\* sub-directory whose name ends in .png
ScanPool ==
    { Entry(F_1png, TRUE, TRUE, 1, 1), Entry(F_2PNG, TRUE, TRUE, 1, 1),
      Entry(F_Gjpg, TRUE, TRUE, 1, 1), Entry(F_apng, TRUE, TRUE, 1, 1),
      Entry(F_bpng, TRUE, TRUE, 1, 1), Entry(F_ntxt, TRUE, TRUE, 1, 1),
      Entry(F_spng, FALSE, FALSE, 0, 0) }

\* every order in which os.listdir may yield the entries of S
RECURSIVE Orders(_)
Orders(S) ==
    IF S = {} THEN { << >> }
    ELSE UNION { { <<e>> \o rest : rest \in Orders(S \ {e}) } : e \in S }

\* the listings of every directory made of entries of pool
Listings(pool) == UNION { Orders(S) : S \in SUBSET pool }

ScanInit ==
    /\ pc = "scan"
    /\ fs = InitialFS
    /\ listing \in Listings(ScanPool)
    /\ skip_first_images \in 0..MaxSkip
    /\ select_every_nth \in 1..MaxStride
    /\ dir_files = << >>
    /\ node = "Path"
    /\ slots = << >>
    /\ path_count = 0
    /\ image_load_cap = 0
    /\ i = 1
    /\ all_images = << >>
    /\ all_masks = << >>
    /\ total_frame_count = 0
    /\ frame_counts = << >>
    /\ directory_names = << >>
    /\ target_size = None
    /\ loaded_slots = << >>
    /\ outcome = None
    /\ images = << >>
    /\ path_info = MultiPathInfo(<< >>, << >>)
    /\ current_idx = 0
    /\ segments = << >>
    /\ output_format = "images"
    /\ encoder = "found"
    /\ output_paths = << >>
    /\ disk = << >>
    /\ DirIdle
    /\ ChangedIdle
    /\ PureIdle

\* a call of get_sorted_dir_files_from_directory on the listed directory
Scan ==
    /\ pc = "scan"
    /\ pc' = "scan_done"
    /\ dir_files' = get_sorted_dir_files_from_directory(ScanDir, listing,
                        skip_first_images, select_every_nth, IMG_EXTENSIONS)
    /\ UNCHANGED << fs, listing, skip_first_images, select_every_nth, outcome >>
    /\ UNCHANGED loadVars
    /\ UNCHANGED saveVars
    /\ UNCHANGED dirVars
    /\ UNCHANGED changedVars
    /\ UNCHANGED pureVars

ScanNext == Scan

ScanSpec == ScanInit /\ [][ScanNext]_vars

-----------------------------------------------------------------------------
(* Save node: save_nodes.SaveImagesMultiPath.save_images_multi *)

MaxFrames == 3
MaxEntries == 2
MaxCount == 2

\* utils.sanitize_filename
InvalidChars == {"<", ">", ":", "\"", "/", "\\", "|", "?", "*"}

\* leading and trailing spaces and dots are kept
sanitize_filename_NoStrip(name) ==
    [k \in 1..Len(name) |-> IF name[k] \in InvalidChars THEN "_" ELSE name[k]]

sanitize_filename(name) ==
    StripChars([k \in 1..Len(name) |-> IF name[k] \in InvalidChars THEN "_" ELSE name[k]],
               {" ", "."})

\* the slice takes index b as well
Slice_Inclusive(batch, a, b) ==
    LET hi == IF b + 1 < Len(batch) THEN b + 1 ELSE Len(batch)
    IN IF a >= hi THEN << >> ELSE SubSeq(batch, a + 1, hi)

\* images[a:b] for 0 <= a <= b: Python clamps both ends to the batch
Slice(batch, a, b) ==
    LET hi == IF b < Len(batch) THEN b ELSE Len(batch)
    IN IF a >= hi THEN << >> ELSE SubSeq(batch, a + 1, hi)

Min(a, b) == IF a < b THEN a ELSE b

\* number of iterations of `for ... in zip(frame_counts, directory_names)`
ZipLen(info) == Min(Len(info.frame_counts), Len(info.directory_names))

OutDir == <<"o">>
FilenamePrefix == <<"p">>
Mp4Suffix == <<".", "m", "p", "4">>

\* the directory name is used as it is
BaseFilename_Unsanitized(dir_name) == FilenamePrefix \o <<"_">> \o dir_name

\* f"{filename_prefix}_{safe_dir_name}"
BaseFilename(dir_name) == FilenamePrefix \o <<"_">> \o sanitize_filename(dir_name)

\* directory names a manifest may carry
DirNameValues == { <<"a">>, <<"b">>, <<"a", ":">> }

Manifests ==
    UNION { { MultiPathInfo(fc, dn) : fc \in [1..n -> 0..MaxCount],
                                      dn \in [1..n -> DirNameValues] }
            : n \in 0..MaxEntries }

SaveInit ==
    /\ pc = "save_loop"
    /\ fs = InitialFS
    /\ \E len \in 0..MaxFrames : images = [k \in 1..len |-> k]
    /\ path_info \in Manifests
    /\ output_format \in {"images", "mp4"}
    /\ encoder \in {"found", "missing"}
    /\ i = 1
    /\ current_idx = 0
    /\ segments = << >>
    /\ output_paths = << >>
    /\ disk = << >>
    /\ outcome = None
    /\ node = "Path"
    /\ slots = << >>
    /\ path_count = 0
    /\ image_load_cap = 0
    /\ skip_first_images = 0
    /\ select_every_nth = 1
    /\ all_images = << >>
    /\ all_masks = << >>
    /\ total_frame_count = 0
    /\ frame_counts = << >>
    /\ directory_names = << >>
    /\ target_size = None
    /\ loaded_slots = << >>
    /\ listing = << >>
    /\ dir_files = << >>
    /\ DirIdle
    /\ ChangedIdle
    /\ PureIdle

SaveUnchanged == << fs, path_info, output_format, encoder, node, slots,
                    path_count, image_load_cap, skip_first_images, select_every_nth,
                    all_images, all_masks, total_frame_count, frame_counts,
                    directory_names, target_size, loaded_slots, listing, dir_files,
                    arg_directory, arg_size_check, content, digest, prev_digest, since,
                    between, prev_fs, prev_content, source_image, target_geometry,
                    text >>

\* what the disk holds under the path of a folder
Folder == "folder"

\* os.makedirs(d, exist_ok=True) on the disk dsk
makedirs(dsk, d) == IF <<d>> \in DOMAIN dsk THEN dsk ELSE (<<d>> :> Folder) @@ dsk

\* lines 93-113: the entry's sub-folder is made and one file per frame is
\* written under it, numbered from 0
WriteImages(output_subdir, dir_images) ==
    [key \in { <<output_subdir, j>> : j \in 0..(Len(dir_images) - 1) }
        |-> dir_images[key[2] + 1]] @@ makedirs(disk, output_subdir)

\* "\n".join(paths)
RECURSIVE JoinLines(_)
JoinLines(paths) ==
    IF paths = << >> THEN << >>
    ELSE IF Len(paths) = 1 THEN paths[1]
    ELSE paths[1] \o <<"\n">> \o JoinLines(Tail(paths))

\* an encoder is found whatever the environment holds
get_ffmpeg_path_Always(env) == <<"f", "f", "m", "p", "e", "g">>

\* utils.get_ffmpeg_path: the executable found on PATH or at one of the common
\* locations, None when there is none; env tells whether the machine has one
get_ffmpeg_path(env) ==
    IF env = "found" THEN <<"f", "f", "m", "p", "e", "g">> ELSE None

\* the frames after index a up to index b of the batch are scaled in place
BatchAfterEntry_InPlace(batch, a, b) ==
    [k \in 1..Len(batch) |-> IF a < k /\ k <= b THEN batch[k] * 255 ELSE batch[k]]

\* lines 82, 98 and 127: images[current_idx:end_idx] is a view of the batch and
\* img_tensor.cpu().numpy() * 255 builds a new array: the batch is left as it is
BatchAfterEntry(batch, a, b) == batch

\* one iteration of the loop of lines 79-154
SaveEntry ==
    /\ pc = "save_loop"
    /\ i <= ZipLen(path_info)
    /\ UNCHANGED SaveUnchanged
    /\ images' = BatchAfterEntry(images, current_idx, current_idx + path_info.frame_counts[i])
    /\ LET frame_count == path_info.frame_counts[i]
           dir_name    == path_info.directory_names[i]
           end_idx     == current_idx + frame_count
           dir_images  == Slice(images, current_idx, end_idx)
           base        == BaseFilename(dir_name)
       IN /\ current_idx' = end_idx
          /\ segments' = Append(segments, [dir_name |-> dir_name, dir_images |-> dir_images])
          /\ IF output_format = "images"
             THEN LET output_subdir == path_join(OutDir, base)
                  IN /\ disk' = WriteImages(output_subdir, dir_images)
                     /\ output_paths' = Append(output_paths, output_subdir)
                     /\ i' = i + 1
                     /\ UNCHANGED << pc, outcome >>
             ELSE IF get_ffmpeg_path(encoder) = None
             THEN /\ pc' = "done"
                  /\ outcome' = [kind |-> "raise",
                                 error |-> [type |-> "RuntimeError", msg |-> "ffmpeg not found"]]
                  /\ UNCHANGED << i, disk, output_paths >>
             ELSE LET output_file == path_join(OutDir, base \o Mp4Suffix)
                  IN \E returncode \in {0, 1} :
                        IF returncode # 0
                        THEN /\ pc' = "done"
                             /\ outcome' = [kind |-> "raise",
                                            error |-> [type |-> "RuntimeError",
                                                       msg |-> "ffmpeg failed"]]
                             /\ UNCHANGED << i, disk, output_paths >>
                        ELSE /\ disk' = (<<output_file>> :> dir_images) @@ disk
                             /\ output_paths' = Append(output_paths, output_file)
                             /\ i' = i + 1
                             /\ UNCHANGED << pc, outcome >>

\* lines 156-159: the newline-joined paths are returned
SaveFinish ==
    /\ pc = "save_loop"
    /\ i > ZipLen(path_info)
    /\ pc' = "done"
    /\ outcome' = [kind |-> "return", paths_str |-> JoinLines(output_paths)]
    /\ UNCHANGED SaveUnchanged
    /\ UNCHANGED << images, i, current_idx, segments, output_paths, disk >>

SaveNext == SaveEntry \/ SaveFinish

SaveSpec == SaveInit /\ [][SaveNext]_vars

-----------------------------------------------------------------------------
(* The variables of each operation while another one runs *)

LoadIdle ==
    /\ node = "Path"
    /\ slots = << >>
    /\ path_count = 0
    /\ i = 1
    /\ all_images = << >>
    /\ all_masks = << >>
    /\ total_frame_count = 0
    /\ frame_counts = << >>
    /\ directory_names = << >>
    /\ target_size = None
    /\ loaded_slots = << >>

ScanIdle == listing = << >> /\ dir_files = << >>

SaveIdle ==
    /\ images = << >>
    /\ path_info = MultiPathInfo(<< >>, << >>)
    /\ current_idx = 0
    /\ segments = << >>
    /\ output_format = "images"
    /\ encoder = "found"
    /\ output_paths = << >>
    /\ disk = << >>

-----------------------------------------------------------------------------
(* The single directory loader on its own *)

\* directories load_images_from_directory is called on: those of the file
\* system and one that does not exist
DirValues == DOMAIN InitialFS \cup { <<"z">> }

DirInit ==
    /\ pc = "dir"
    /\ fs = InitialFS
    /\ arg_directory \in DirValues
    /\ arg_size_check \in BOOLEAN
    /\ image_load_cap \in 0..MaxCap
    /\ skip_first_images \in 0..MaxSkip
    /\ select_every_nth \in 1..MaxStride
    /\ outcome = None
    /\ LoadIdle
    /\ ScanIdle
    /\ SaveIdle
    /\ ChangedIdle
    /\ PureIdle

\* a call of load_images_from_directory
LoadDirectory ==
    /\ pc = "dir"
    /\ pc' = "dir_done"
    /\ outcome' = load_images_from_directory(fs, arg_directory, image_load_cap,
                                              skip_first_images, select_every_nth,
                                              arg_size_check)
    /\ UNCHANGED << fs, image_load_cap, skip_first_images, select_every_nth >>
    /\ UNCHANGED << node, path_count, slots, i, all_images, all_masks,
                    total_frame_count, frame_counts, directory_names, target_size,
                    loaded_slots >>
    /\ UNCHANGED scanVars
    /\ UNCHANGED saveVars
    /\ UNCHANGED dirVars
    /\ UNCHANGED changedVars
    /\ UNCHANGED pureVars

DirNext == LoadDirectory

DirSpec == DirInit /\ [][DirNext]_vars

-----------------------------------------------------------------------------
(* One file of the per-file loop of load_images_from_directory: decoding   *)
(* to an image tensor and a mask (lines 181-212) and resizing both to the  *)
(* target geometry (lines 214-226)                                         *)

MaxSide == 2

\* bands of an image of the imaging library, by mode
getbands(mode) ==
    CASE mode = "RGB"  -> <<"R", "G", "B">>
      [] mode = "RGBA" -> <<"R", "G", "B", "A">>
      [] mode = "L"    -> <<"L">>
      [] mode = "LA"   -> <<"L", "A">>

\* pixels an image file of each mode may hold, one sample 0..255 per band
PixelValues(mode) ==
    CASE mode = "RGB"  -> { <<10, 20, 30>>, <<255, 0, 128>> }
      [] mode = "RGBA" -> { <<10, 20, 30, 200>>, <<255, 0, 128, 0>> }
      [] mode = "L"    -> { <<7>>, <<90>> }
      [] mode = "LA"   -> { <<7, 200>>, <<90, 255>> }

\* img.convert(iformat) on one pixel: grey is spread over the three colours,
\* colour samples and alpha are kept
ConvertPixel(mode, iformat, px) ==
    CASE mode = "RGB"  /\ iformat = "RGB"  -> px
      [] mode = "RGBA" /\ iformat = "RGBA" -> px
      [] mode = "L"    /\ iformat = "RGB"  -> <<px[1], px[1], px[1]>>
      [] mode = "LA"   /\ iformat = "RGBA" -> <<px[1], px[1], px[1], px[2]>>

\* float values are kept as exact fractions: sample / 255
Fraction(num) == [num |-> num, den |-> 255]

\* img_np /= 255.0 on one sample
Normalize(sample) == Fraction(sample)

\* the alpha sample is stored as it is
OneMinus_Same(v) == v

\* 1 - v
OneMinus(v) == [num |-> v.den - v.num, den |-> v.den]

\* lines 181-212 on one file. np.array(img) has shape (H, W, C): the pixel at
\* column x of row y is element <<y, x>>. The file is taken to carry no EXIF
\* orientation, so exif_transpose leaves it as it is.
DecodeFile(img) ==
    LET has_alpha == \E k \in 1..Len(getbands(img.mode)) : getbands(img.mode)[k] = "A"
        iformat   == IF has_alpha THEN "RGBA" ELSE "RGB"
        img_np    == [yx \in (1..img.height) \X (1..img.width) |->
                        LET px == ConvertPixel(img.mode, iformat, img.pixels[<<yx[2], yx[1]>>])
                            n  == [k \in 1..Len(px) |-> Normalize(px[k])]
                        IN IF has_alpha THEN [n EXCEPT ![4] = OneMinus(n[4])] ELSE n]
    IN [image  |-> [height |-> img.height, width |-> img.width,
                    values |-> [yx \in DOMAIN img_np |-> SubSeq(img_np[yx], 1, 3)]],
        mask   |-> [height |-> img.height, width |-> img.width,
                    values |-> [yx \in DOMAIN img_np |->
                                   IF has_alpha THEN img_np[yx][4] ELSE Fraction(0)]],
        size   |-> <<img.width, img.height>>]

\* the mask is resampled to the mean of its values
ResizeMask_Average(mask, width, height) ==
    LET cells == DOMAIN mask.values
        total == Sum([k \in 1..(mask.height * mask.width) |->
                        mask.values[<<((k - 1) \div mask.width) + 1,
                                      ((k - 1) % mask.width) + 1>>].num])
    IN [height |-> height, width |-> width,
        values |-> [yx \in (1..height) \X (1..width) |->
                       Fraction(total \div (mask.height * mask.width))]]

\* lines 224-226: torch.nn.functional.interpolate(mask, size, mode='nearest'):
\* output cell (y, x), counted from 0, takes input cell
\* (floor(y * in_height / out_height), floor(x * in_width / out_width))
ResizeMask(mask, width, height) ==
    [height |-> height, width |-> width,
     values |-> [yx \in (1..height) \X (1..width) |->
                    mask.values[<<(((yx[1] - 1) * mask.height) \div height) + 1,
                                  (((yx[2] - 1) * mask.width) \div width) + 1>>]]]

\* lines 219-221: common_upscale(img_tensor, target_width, target_height,
\* "lanczos", "center"); the samples it computes are not modelled
ResizeImage(image, width, height) ==
    [height |-> height, width |-> width, filter |-> "lanczos", crop |-> "center",
     of |-> image]

\* image files of at most MaxSide by MaxSide pixels
SourceImages ==
    UNION { UNION { UNION { { [mode |-> m, width |-> w, height |-> h, pixels |-> px]
                              : px \in [(1..w) \X (1..h) -> PixelValues(m)] }
                            : h \in 1..MaxSide }
                    : w \in 1..MaxSide }
            : m \in {"RGB", "RGBA", "L", "LA"} }

FileInit ==
    /\ pc = "file"
    /\ fs = InitialFS
    /\ source_image \in SourceImages
    /\ target_geometry \in (1..MaxSide) \X (1..MaxSide)
    /\ arg_size_check \in BOOLEAN
    /\ arg_directory = << >>
    /\ text = << >>
    /\ image_load_cap = 0
    /\ skip_first_images = 0
    /\ select_every_nth = 1
    /\ outcome = None
    /\ LoadIdle
    /\ ScanIdle
    /\ SaveIdle
    /\ ChangedIdle

FileUnchanged == << fs, image_load_cap, skip_first_images, select_every_nth, loadVars,
                    scanVars, saveVars, dirVars, changedVars, pureVars >>

\* the file is opened and decoded
Decode ==
    /\ pc = "file"
    /\ pc' = "decoded"
    /\ outcome' = DecodeFile(source_image)
    /\ UNCHANGED FileUnchanged

\* the decoded file is resized when size_check is set and its size is not the target's
Resize ==
    /\ pc = "decoded"
    /\ pc' = "file_done"
    /\ outcome' = IF arg_size_check /\ outcome.size # target_geometry
                   THEN [outcome EXCEPT
                           !.image = ResizeImage(@, target_geometry[1], target_geometry[2]),
                           !.mask = ResizeMask(@, target_geometry[1], target_geometry[2])]
                   ELSE outcome
    /\ UNCHANGED FileUnchanged

FileNext == Decode \/ Resize

FileSpec == FileInit /\ [][FileNext]_vars

-----------------------------------------------------------------------------
(* The text helpers utils.strip_path and utils.sanitize_filename applied   *)
(* to one input                                                            *)

MaxTextLen == 4

TextAlphabet == {" ", "\"", "'", ".", ":", "_", "a"}

\* strings over the alphabet of length n
RECURSIVE Strings(_)
Strings(n) ==
    IF n = 0 THEN { << >> }
    ELSE { Append(s, c) : s \in Strings(n - 1), c \in TextAlphabet }

TextInit ==
    /\ pc = "text"
    /\ fs = InitialFS
    /\ \/ text = None
       \/ text \in UNION { Strings(n) : n \in 0..MaxTextLen }
    /\ source_image = << >>
    /\ target_geometry = << >>
    /\ image_load_cap = 0
    /\ skip_first_images = 0
    /\ select_every_nth = 1
    /\ outcome = None
    /\ LoadIdle
    /\ ScanIdle
    /\ SaveIdle
    /\ DirIdle
    /\ ChangedIdle

\* strip_path(text)
StripPath ==
    /\ pc = "text"
    /\ pc' = "stripped"
    /\ outcome' = [kind |-> "return", value |-> strip_path(text)]
    /\ UNCHANGED FileUnchanged

\* sanitize_filename(text), for a string
SanitizeFilename ==
    /\ pc = "text"
    /\ text # None
    /\ pc' = "sanitized"
    /\ outcome' = [kind |-> "return", value |-> sanitize_filename(text)]
    /\ UNCHANGED FileUnchanged

\* sanitize_filename applied to its own result
SanitizeAgain ==
    /\ pc = "sanitized"
    /\ pc' = "sanitized_twice"
    /\ outcome' = [kind |-> "return", value |-> sanitize_filename(outcome.value),
                   once |-> outcome.value]
    /\ UNCHANGED FileUnchanged

TextNext == StripPath \/ SanitizeFilename \/ SanitizeAgain

TextSpec == TextInit /\ [][TextNext]_vars

-----------------------------------------------------------------------------
(* Change detection: utils.is_changed_load_images_multi behind IS_CHANGED  *)
(* of the two load nodes, evaluated twice by the host                      *)

MaxByte == 1

\* path of the file `name` of directory d
FilePath(d, name) == path_join(d, name)

\* Bytes of every regular file of InitialFS, a number standing for a byte
\* string. The image of c and the two images of b are copies of one another;
\* all other files differ.
InitialContent ==
    (FilePath(S_a, <<"a", ".", "p", "n", "g">>) :> 2)
 @@ (FilePath(S_a, <<"b", ".", "p", "n", "g">>) :> 3)
 @@ (FilePath(S_a, <<"c", ".", "P", "N", "G">>) :> 4)
 @@ (FilePath(S_b, <<"x", ".", "p", "n", "g">>) :> 1)
 @@ (FilePath(S_b, <<"y", ".", "j", "p", "g">>) :> 1)
 @@ (FilePath(S_b, <<"n", ".", "t", "x", "t">>) :> 5)
 @@ (FilePath(S_c, <<"k", ".", "p", "n", "g">>) :> 1)
 @@ (FilePath(S_e, <<"n", ".", "t", "x", "t">>) :> 6)
 @@ (FilePath(S_x, <<"a", ".", "p", "n", "g">>) :> 7)
 @@ (FilePath(S_x, <<"b", ".", "p", "n", "g">>) :> 8)

\* the hash of a file does not depend on its bytes
calculate_file_hash_Constant(contents, filepath) == << 0 >>

\* calculate_file_hash: the SHA-256 hex digest of the file's bytes. SHA-256 is
\* taken as collision-free and every hex digest has the same length, so a
\* digest is one symbol that names the bytes.
calculate_file_hash(contents, filepath) == << contents[filepath] >>

\* m.update(data): the hash object has consumed its earlier input followed by data
Update(m, data) == m \o data

\* m.digest().hex(): collision-free, it names the whole input consumed
HexDigest(m) == [sha256 |-> m]

\* lines 122-126: the file hashes of one directory, in scan order after the cap
RECURSIVE UpdateWithFiles(_, _, _)
UpdateWithFiles(m, contents, files) ==
    IF files = << >> THEN m
    ELSE UpdateWithFiles(Update(m, calculate_file_hash(contents, Head(files))),
                         contents, Tail(files))

\* lines 122-124: the files of directory d that are hashed
ChangedFiles(filesystem, d, cap, skip, nth) ==
    LET scanned == get_sorted_dir_files_from_directory(d, os_listdir(filesystem, d),
                                                       skip, nth, IMG_EXTENSIONS)
    IN IF cap # 0 THEN TakeFirst(scanned, cap) ELSE scanned

\* the loop of lines 120-126 over the directories that are left
RECURSIVE UpdateWithDirectories(_, _, _, _, _, _, _)
UpdateWithDirectories(m, filesystem, contents, directories, cap, skip, nth) ==
    IF directories = << >> THEN m
    ELSE LET d == Head(directories)
             m2 == IF d # None /\ d # << >> /\ os_path_isdir(filesystem, d)
                   THEN UpdateWithFiles(m, contents,
                                        ChangedFiles(filesystem, d, cap, skip, nth))
                   ELSE m
         IN UpdateWithDirectories(m2, filesystem, contents, Tail(directories),
                                  cap, skip, nth)

is_changed_load_images_multi(filesystem, contents, directories, cap, skip, nth) ==
    HexDigest(UpdateWithDirectories(<< >>, filesystem, contents, directories,
                                    cap, skip, nth))

\* the test of IS_CHANGED and VALIDATE_INPUTS that takes a slot into account:
\* `directory and directory != ""` (Upload), `directory and directory.strip() != ""` (Path)
IsConfiguredSlot(n, d) ==
    IF n = "Upload" THEN d # << >>
    ELSE d # << >> /\ StripChars(d, Whitespace) # << >>

\* the loop of IS_CHANGED (lines 155-161 / 314-320) over the slots that are
\* left: the directories collected, or the exception of get_annotated_filepath
RECURSIVE CollectDirectories(_, _, _)
CollectDirectories(n, slotseq, directories) ==
    IF slotseq = << >> THEN [raised |-> FALSE, directories |-> directories]
    ELSE IF ~IsConfiguredSlot(n, Head(slotseq))
    THEN CollectDirectories(n, Tail(slotseq), directories)
    ELSE LET fp == FullPath(n, Head(slotseq))
         IN IF fp.raised THEN fp
            ELSE CollectDirectories(n, Tail(slotseq), Append(directories, fp.path))

\* IS_CHANGED of either node: what it returns or raises
IS_CHANGED(n, filesystem, contents, slotseq, cap, skip, nth) ==
    LET c == CollectDirectories(n, slotseq, << >>)
    IN IF c.raised THEN [kind |-> "raise", error |-> c.error]
       ELSE [kind |-> "return",
             digest |-> is_changed_load_images_multi(filesystem, contents,
                                                     c.directories, cap, skip, nth)]

\* values of the two directory slots of a change detection
ChangedSlotValues ==
    { << >>, <<"a">>, <<" ", "\"", "b", "\"">>, <<"c", "/">>, <<"e">>, <<"z">> }

ChangedInit ==
    /\ pc = "changed"
    /\ fs = InitialFS
    /\ content = InitialContent
    /\ node \in Nodes
    /\ slots \in [{1, 2} -> ChangedSlotValues]
    /\ path_count = Len(slots)
    /\ image_load_cap \in 0..MaxCap
    /\ skip_first_images \in 0..MaxSkip
    /\ select_every_nth \in 1..MaxStride
    /\ digest = Unevaluated
    /\ prev_digest = Unevaluated
    /\ since = << >>
    /\ between = << >>
    /\ prev_fs = << >>
    /\ prev_content = << >>
    /\ outcome = None
    /\ i = 1
    /\ all_images = << >>
    /\ all_masks = << >>
    /\ total_frame_count = 0
    /\ frame_counts = << >>
    /\ directory_names = << >>
    /\ target_size = None
    /\ loaded_slots = << >>
    /\ ScanIdle
    /\ SaveIdle
    /\ DirIdle
    /\ PureIdle

ChangedUnchanged == << node, path_count, image_load_cap, skip_first_images,
                       select_every_nth, outcome, i, all_images, all_masks,
                       total_frame_count, frame_counts, directory_names, target_size,
                       loaded_slots, listing, dir_files, images, path_info,
                       current_idx, segments, output_format, encoder, output_paths,
                       disk, arg_directory, arg_size_check, source_image,
                       target_geometry, text >>

\* the host evaluates IS_CHANGED; it does so twice
EvaluateIsChanged ==
    /\ pc = "changed"
    /\ digest' = IS_CHANGED(node, fs, content, slots, image_load_cap,
                            skip_first_images, select_every_nth)
    /\ prev_digest' = digest
    /\ prev_fs' = IF digest.kind = "unevaluated" THEN fs ELSE prev_fs
    /\ prev_content' = IF digest.kind = "unevaluated" THEN content ELSE prev_content
    /\ between' = since
    /\ since' = << >>
    /\ pc' = IF digest.kind = "unevaluated" THEN "changed" ELSE "done"
    /\ UNCHANGED << fs, slots, content >>
    /\ UNCHANGED ChangedUnchanged

\* between the two evaluations some program changes a byte of one file
WriteByte ==
    /\ pc = "changed"
    /\ digest.kind # "unevaluated"
    /\ since = << >>
    /\ \E filepath \in DOMAIN content : \E v \in (0..MaxByte) \ { content[filepath] } :
          /\ content' = [content EXCEPT ![filepath] = v]
          /\ since' = << [op |-> "write", filepath |-> filepath] >>
    /\ UNCHANGED << pc, fs, slots, digest, prev_digest, between, prev_fs, prev_content >>
    /\ UNCHANGED ChangedUnchanged

\* between the two evaluations the user exchanges the two directory slots
SwapDirectories ==
    /\ pc = "changed"
    /\ digest.kind # "unevaluated"
    /\ since = << >>
    /\ slots' = << slots[2], slots[1] >>
    /\ since' = << [op |-> "swap"] >>
    /\ UNCHANGED << pc, fs, content, digest, prev_digest, between, prev_fs,
                    prev_content >>
    /\ UNCHANGED ChangedUnchanged

\* s without its k-th element
RemoveAt(s, k) == SubSeq(s, 1, k - 1) \o SubSeq(s, k + 1, Len(s))

\* the name a moved file gets: it sorts before every name of InitialFS and
\* keeps the extension
MovedName(name) == <<"0">> \o splitext_ext(name)

\* between the two evaluations some program moves a regular file from one
\* directory to another, under a name that is free there
MoveFile ==
    /\ pc = "changed"
    /\ digest.kind # "unevaluated"
    /\ since = << >>
    /\ \E from \in DOMAIN fs : \E to \in (DOMAIN fs) \ {from} : \E k \in 1..Len(fs[from]) :
          LET e        == fs[from][k]
              old_path == FilePath(from, e.name)
              new_path == FilePath(to, MovedName(e.name))
          IN /\ e.isfile
             /\ old_path \in DOMAIN content
             /\ new_path \notin DOMAIN content
             /\ fs' = [fs EXCEPT ![from] = RemoveAt(@, k),
                                 ![to] = Append(@, [e EXCEPT !.name = MovedName(e.name)])]
             /\ content' = [q \in ((DOMAIN content) \ {old_path}) \cup {new_path} |->
                               IF q = new_path THEN content[old_path] ELSE content[q]]
             /\ since' = << [op |-> "move", filepath |-> old_path, to |-> new_path] >>
    /\ UNCHANGED << pc, slots, digest, prev_digest, between, prev_fs, prev_content >>
    /\ UNCHANGED ChangedUnchanged

ChangedNext == EvaluateIsChanged \/ WriteByte \/ SwapDirectories \/ MoveFile

ChangedSpec == ChangedInit /\ [][ChangedNext]_vars

-----------------------------------------------------------------------------
(* Input validation: utils.validate_load_images behind VALIDATE_INPUTS of  *)
(* the two load nodes                                                      *)

MsgNoValidDirectory == "At least one valid directory must be specified."

\* Python's True, among the strings a validation may return instead
PyTrue == "True"

\* a directory is valid only when it holds a regular file with an image extension
validate_load_images_Images(filesystem, d) ==
    IF d = None THEN Raised("TypeError", "stat: path should be string, not NoneType")
    ELSE IF ~os_path_isdir(filesystem, d)
    THEN [raised |-> FALSE, result |-> MsgCannotBeFound]
    ELSE IF MatchingPaths(d, os_listdir(filesystem, d), IMG_EXTENSIONS) = << >>
    THEN [raised |-> FALSE, result |-> MsgNoFiles]
    ELSE [raised |-> FALSE, result |-> PyTrue]

\* validate_load_images: True, or the message that says why not;
\* os.path.isdir(None) raises
validate_load_images(filesystem, d) ==
    IF d = None THEN Raised("TypeError", "stat: path should be string, not NoneType")
    ELSE IF ~os_path_isdir(filesystem, d)
    THEN [raised |-> FALSE, result |-> MsgCannotBeFound]
    ELSE IF Len(os_listdir(filesystem, d)) = 0
    THEN [raised |-> FALSE, result |-> MsgNoFiles]
    ELSE [raised |-> FALSE, result |-> PyTrue]

\* the loop of VALIDATE_INPUTS (lines 173-180 / 332-339) over the slots that
\* are left: the number of valid directories, or the exception that ends it
RECURSIVE CountValidDirectories(_, _, _, _)
CountValidDirectories(n, filesystem, slotseq, valid_dirs) ==
    IF slotseq = << >> THEN [raised |-> FALSE, valid_dirs |-> valid_dirs]
    ELSE IF ~IsConfiguredSlot(n, Head(slotseq))
    THEN CountValidDirectories(n, filesystem, Tail(slotseq), valid_dirs)
    ELSE LET fp == FullPath(n, Head(slotseq))
         IN IF fp.raised THEN fp
            ELSE LET r == validate_load_images(filesystem, fp.path)
                 IN IF r.raised THEN r
                    ELSE CountValidDirectories(n, filesystem, Tail(slotseq),
                             IF r.result = PyTrue THEN valid_dirs + 1 ELSE valid_dirs)

\* VALIDATE_INPUTS of either node: True, the error string, or an exception
VALIDATE_INPUTS(n, filesystem, slotseq) ==
    LET c == CountValidDirectories(n, filesystem, slotseq, 0)
    IN IF c.raised THEN [kind |-> "raise", error |-> c.error]
       ELSE IF c.valid_dirs = 0 THEN [kind |-> "return", value |-> MsgNoValidDirectory]
       ELSE [kind |-> "return", value |-> PyTrue]

\* values of a directory slot that is validated: those that are loaded and the
\* directory that holds nothing
ValidateSlotValues == SlotValues \cup { S_o }

ValidateInit ==
    /\ pc = "validate"
    /\ fs = InitialFS
    /\ node \in Nodes
    /\ slots \in UNION { [1..n -> ValidateSlotValues] : n \in 1..MaxPathCount }
    /\ path_count = Len(slots)
    /\ image_load_cap = 0
    /\ skip_first_images = 0
    /\ select_every_nth = 1
    /\ outcome = None
    /\ i = 1
    /\ all_images = << >>
    /\ all_masks = << >>
    /\ total_frame_count = 0
    /\ frame_counts = << >>
    /\ directory_names = << >>
    /\ target_size = None
    /\ loaded_slots = << >>
    /\ ScanIdle
    /\ SaveIdle
    /\ DirIdle
    /\ ChangedIdle
    /\ PureIdle

\* the host validates the inputs of the node
ValidateInputs ==
    /\ pc = "validate"
    /\ pc' = "done"
    /\ outcome' = VALIDATE_INPUTS(node, fs, slots)
    /\ UNCHANGED << fs, skip_first_images, select_every_nth >>
    /\ UNCHANGED loadVars
    /\ UNCHANGED scanVars
    /\ UNCHANGED saveVars
    /\ UNCHANGED dirVars
    /\ UNCHANGED changedVars
    /\ UNCHANGED pureVars

ValidateNext == ValidateInputs

ValidateSpec == ValidateInit /\ [][ValidateNext]_vars

-----------------------------------------------------------------------------
(* Properties of load_images_multi (specification Spec) *)

\* load_images_multi has returned its four outputs
Returned == pc = "done" /\ outcome.kind = "return"

\* load_images_multi has raised
Failed == pc = "done" /\ outcome.kind = "raise"

NoValidDirectories == [type |-> "FileNotFoundError", msg |-> MsgNoImages]

\* the directory path slot k resolves to (for a slot that is not empty)
SlotPath(k) == FullPath(node, slots[k]).path

\* the files of slot k's directory that the scan selects, after the cap
Selection(k) ==
    LET scanned == get_sorted_dir_files_from_directory(SlotPath(k),
                       os_listdir(fs, SlotPath(k)), skip_first_images,
                       select_every_nth, IMG_EXTENSIONS)
    IN IF image_load_cap > 0 THEN TakeFirst(scanned, image_load_cap) ELSE scanned

\* C1: whenever load_images_multi returns, the manifest's frame counts add up to
\* the number of frames of the combined batch and to the returned frame_count,
\* and the manifest's two arrays have the same length.
Inv_C1_ManifestSum ==
    Returned =>
        /\ Sum(outcome.path_info.frame_counts) = Len(outcome.images)
        /\ Len(outcome.images) = outcome.frame_count
        /\ Len(outcome.path_info.frame_counts) = Len(outcome.path_info.directory_names)

\* two directories were loaded, three frames in all
Wit_C1_TwoDirectories ==
    /\ Returned
    /\ outcome.path_info.frame_counts = <<2, 1>>
    /\ outcome.frame_count = 3

\* C2: in the returned batch the k-th loaded directory's frames fill exactly the
\* positions after the earlier directories' frames, in its scan order, and the
\* loaded directories appear in increasing slot order.
Inv_C2_ContiguousRuns ==
    Returned =>
        LET fc == outcome.path_info.frame_counts
        IN /\ Len(loaded_slots) = Len(fc)
           /\ Len(outcome.images) = Sum(fc)
           /\ \A k \in 1..(Len(fc) - 1) : loaded_slots[k] < loaded_slots[k + 1]
           /\ \A k \in 1..Len(fc) :
                 LET sel == Selection(loaded_slots[k])
                     c   == Sum(SubSeq(fc, 1, k - 1))
                 IN /\ fc[k] = Len(sel)
                    /\ \A j \in 1..fc[k] : outcome.images[c + j].src = sel[j]

\* two different directories, the first with two frames, were joined
Wit_C2_TwoRuns ==
    /\ Returned
    /\ Len(outcome.path_info.frame_counts) = 2
    /\ outcome.path_info.frame_counts[1] >= 2
    /\ outcome.path_info.frame_counts[2] >= 1
    /\ outcome.images[1].src # outcome.images[outcome.path_info.frame_counts[1] + 1].src

\* The case each slot is in, read off the inputs and the file system:
\*   "empty"        the slot is skipped as empty
\*   "unresolved"   the slot is not empty but its value normalises to no path
\*   "missing"      the slot names a directory that cannot be found
\*   "no_files"     the directory exists and its scan selects no file
\*   "decode_fails" the directory exists and a selected file does not decode
\*   "loadable"     the directory exists, files are selected and all decode
SlotKind(k) ==
    IF IsEmptySlot(node, slots[k]) THEN "empty"
    ELSE IF StripChars(StripChars(StripChars(slots[k], {" "}), {"\""}), {"'"}) = << >>
    THEN "unresolved"
    ELSE IF ResolveDir(SlotPath(k)) \notin DOMAIN fs THEN "missing"
    ELSE LET sel == Selection(k)
             entries == fs[ResolveDir(SlotPath(k))]
         IN IF sel = << >> THEN "no_files"
            ELSE IF \E j \in 1..Len(sel) : ~EntryAt(SlotPath(k), entries, sel[j]).decodable
            THEN "decode_fails"
            ELSE "loadable"

Slots == 1..path_count

\* the slots with their cases, as pairs <<slot, case>>
SlotKinds == { <<k, SlotKind(k)>> : k \in Slots }

\* the slots that a classification puts in one of the given cases
SlotsOf(kinds, cases) == { p[1] : p \in { q \in kinds : q[2] \in cases } }

SlotEmpty(k) == SlotKind(k) = "empty"
SlotMissing(k) == SlotKind(k) = "missing"
SlotYieldsNoFiles(k) == SlotKind(k) = "no_files"
SlotDecodeFails(k) == SlotKind(k) = "decode_fails"
SlotLoadable(k) == SlotKind(k) = "loadable"

\* geometry of a loadable slot's directory: that of its first selected file
SlotSize(k) ==
    LET e == EntryAt(SlotPath(k), fs[ResolveDir(SlotPath(k))], Selection(k)[1])
    IN <<e.width, e.height>>

Range(seq) == { seq[k] : k \in 1..Len(seq) }

\* what is left of a run in which some slots are skipped: exactly the loadable
\* slots are loaded; the call raises only because a slot names no path, because
\* nothing was loaded, or because the loaded directories differ in geometry;
\* and it returns when none of these happens
SkipsAndGoesOn(kinds) ==
    LET loadable   == SlotsOf(kinds, {"loadable"})
        unresolved == SlotsOf(kinds, {"unresolved"})
        sizes      == { SlotSize(k) : k \in loadable }
    IN /\ Returned => Range(loaded_slots) = loadable
       /\ Failed =>
             \/ unresolved # {}
             \/ outcome.error = NoValidDirectories /\ loadable = {}
             \/ outcome.error.type = "RuntimeError" /\ Cardinality(sizes) > 1
       /\ (loadable # {} /\ unresolved = {} /\ Cardinality(sizes) = 1) => Returned

ErrorWhenNotFound ==
    load_images_multi(node, fs, << <<"z">> >>, image_load_cap, skip_first_images,
                      select_every_nth).error

RemoveSlot(k) == SubSeq(slots, 1, k - 1) \o SubSeq(slots, k + 1, Len(slots))

Geometry(f) == <<f.width, f.height>>

\* C13: the target geometry is unset until a directory loads, is then the
\* geometry of the first slot that loaded and never another, every image kept
\* for the batch has it, and so has every image of the batch that is returned.
Inv_C13_TargetIsFirstLoaded ==
    /\ (target_size = None) <=> (loaded_slots = << >>)
    /\ loaded_slots # << >> =>
          /\ target_size = SlotSize(loaded_slots[1])
          /\ \A k \in 1..Len(all_images) : \A f \in Range(all_images[k]) :
                Geometry(f) = target_size
    /\ Returned =>
          \A f \in Range(outcome.images) : Geometry(f) = SlotSize(loaded_slots[1])

\* a batch was returned whose geometry was set by the second slot, the first
\* one having failed to load
Wit_C13_SecondSlotSetsTarget ==
    /\ Returned
    /\ path_count = 2
    /\ SlotYieldsNoFiles(1)
    /\ loaded_slots = <<2>>
    /\ target_size = SlotSize(2)

\* C14 as stated: when a loaded directory's geometry differs from the target,
\* the call returns, every mask of the combined batch has the target geometry,
\* and there are as many masks as images.
Orig_C14_MasksResampled ==
    pc = "done" =>
        LET kinds    == SlotKinds
            loadable == SlotsOf(kinds, {"loadable"})
        IN (SlotsOf(kinds, {"unresolved"}) = {}
            /\ Cardinality({ SlotSize(k) : k \in loadable }) > 1)
           => /\ Returned
              /\ Len(outcome.masks) = Len(outcome.images)
              /\ \A f \in Range(outcome.masks) : Geometry(f) = target_size

\* C15: the returned manifest has one entry for each slot whose directory
\* loads, in slot order, and none for any other slot; every entry counts the
\* files selected in its slot's directory, at least 1, and at most
\* image_load_cap when image_load_cap > 0.
Inv_C15_ManifestEntries ==
    Returned =>
        LET fc == outcome.path_info.frame_counts
            dn == outcome.path_info.directory_names
        IN /\ Len(fc) = Len(loaded_slots)
           /\ Len(dn) = Len(loaded_slots)
           /\ Range(loaded_slots) = SlotsOf(SlotKinds, {"loadable"})
           /\ \A k \in 1..(Len(loaded_slots) - 1) : loaded_slots[k] < loaded_slots[k + 1]
           /\ \A k \in 1..Len(fc) :
                 /\ fc[k] = Len(Selection(loaded_slots[k]))
                 /\ dn[k] = DirName(SlotPath(loaded_slots[k]))
                 /\ fc[k] >= 1
                 /\ image_load_cap > 0 => fc[k] <= image_load_cap

\* with a cap of 1 the second of two slots loaded and the manifest has its
\* single entry of one frame, although its directory holds more images
Wit_C15_CappedEntry ==
    /\ Returned
    /\ image_load_cap = 1
    /\ path_count = 2
    /\ SlotMissing(1)
    /\ slots[2] = <<"a">>
    /\ outcome.path_info = MultiPathInfo(<<1>>, << <<"a">> >>)

-----------------------------------------------------------------------------
(* Properties of save_images_multi (specification SaveSpec) *)

\* C3: when the manifest's counts add up to the batch length, the slices taken
\* have the manifest's lengths entry by entry, each is paired with the directory
\* name of the same index, and once every entry is processed their
\* concatenation in order is the batch.
Inv_C3_SplitRoundTrip ==
    Sum(path_info.frame_counts) = Len(images) =>
        /\ \A k \in 1..Len(segments) :
              /\ Len(segments[k].dir_images) = path_info.frame_counts[k]
              /\ segments[k].dir_name = path_info.directory_names[k]
        /\ (pc = "done" /\ outcome.kind = "return") =>
              /\ Len(segments) = Len(path_info.frame_counts)
              /\ Concat([k \in 1..Len(segments) |-> segments[k].dir_images]) = images

\* a batch of three frames was split in two non-empty slices
Wit_C3_TwoSlices ==
    /\ pc = "done"
    /\ outcome.kind = "return"
    /\ Len(images) = 3
    /\ Sum(path_info.frame_counts) = 3
    /\ Len(segments) = 2
    /\ segments[1].dir_images # << >>
    /\ segments[2].dir_images # << >>

\* save_images_multi has returned the string of paths
Saved == pc = "done" /\ outcome.kind = "return"

\* the path the output of manifest entry k is to have
ExpectedOutput(k) ==
    LET name == FilenamePrefix \o <<"_">> \o sanitize_filename(path_info.directory_names[k])
    IN IF output_format = "images"
       THEN OutDir \o <<"/">> \o name
       ELSE OutDir \o <<"/">> \o name \o <<".", "m", "p", "4">>

\* C19: when save_images_multi returns, it has produced one output for each
\* manifest entry, in manifest order, each named prefix, underscore, sanitized
\* directory name under the output directory - a folder in images mode, a
\* .mp4 file in mp4 mode - and it returns these paths joined by newlines.
Inv_C19_OneOutputPerEntry ==
    Saved =>
        LET n == Len(path_info.directory_names)
            expected == [k \in 1..n |-> ExpectedOutput(k)]
        IN /\ output_paths = expected
           /\ \A k \in 1..n :
                 /\ <<expected[k]>> \in DOMAIN disk
                 /\ output_format = "images" => disk[<<expected[k]>>] = Folder
                 /\ output_format = "mp4" =>
                       \E l \in 1..n : /\ expected[l] = expected[k]
                                        /\ disk[<<expected[k]>>] = segments[l].dir_images
           /\ outcome.paths_str = JoinLines(expected)
           /\ Len(outcome.paths_str) = Sum([k \in 1..n |-> Len(expected[k])])
                                       + (IF n = 0 THEN 0 ELSE n - 1)

\* two entries, the second with a name that needs sanitizing, were saved as videos
Wit_C19_TwoVideos ==
    /\ Saved
    /\ output_format = "mp4"
    /\ path_info.directory_names = << <<"b">>, <<"a", ":">> >>
    /\ outcome.paths_str = <<"o", "/", "p", "_", "b", ".", "m", "p", "4", "\n",
                             "o", "/", "p", "_", "a", "_", ".", "m", "p", "4">>

\* the frames written to disk as image files
WrittenFrames == { disk[key] : key \in { q \in DOMAIN disk : Len(q) = 2 } }

\* C20: in images mode, when the manifest's counts do not add up to the number
\* of frames L, the call does not fail; entry k takes the frames
\* [min(c, L), min(c + n, L)) where c is the sum of the earlier counts and n
\* its own, so no index beyond the batch is read and no frame goes to two
\* entries; every entry yields an output path; and the frames from index
\* sum(frame_counts) on are written nowhere.
Inv_C20_ClampedSlices ==
    (output_format = "images" /\ Sum(path_info.frame_counts) # Len(images)) =>
        LET fc == path_info.frame_counts
            L  == Len(images)
        IN /\ pc = "done" => outcome.kind = "return"
           /\ \A k \in 1..Len(segments) :
                 LET c  == Sum(SubSeq(fc, 1, k - 1))
                     lo == Min(c, L)
                     hi == Min(c + fc[k], L)
                 IN segments[k].dir_images = [j \in 1..(hi - lo) |-> images[lo + j]]
           /\ \A k, l \in 1..Len(segments) :
                 k # l => Range(segments[k].dir_images) \cap Range(segments[l].dir_images) = {}
           /\ Len(output_paths) = Len(segments)
           /\ Saved =>
                 /\ Len(output_paths) = Len(fc)
                 /\ \A j \in (Sum(fc) + 1)..L : images[j] \notin WrittenFrames

\* three frames were split by a manifest that counts four: the second entry
\* got the one frame that was left
Wit_C20_ShortBatch ==
    /\ Saved
    /\ output_format = "images"
    /\ Len(images) = 3
    /\ path_info.frame_counts = <<2, 2>>
    /\ segments[2].dir_images = <<3>>

-----------------------------------------------------------------------------
(* Properties of the scanner (specification ScanSpec) *)

\* the image files of the pool in code-point order of their names
SortedPool == << F_1png, F_2PNG, F_Gjpg, F_apng, F_bpng >>

\* what the claim expects of a listing: the image files present, in that order,
\* as paths under the scanned directory
ExpectedSorted ==
    LET present == { listing[k].name : k \in 1..Len(listing) }
        names   == SelectSeq(SortedPool, LAMBDA n : n \in present)
    IN [k \in 1..Len(names) |-> ScanDir \o <<"/">> \o names[k]]

-----------------------------------------------------------------------------
(* Properties of load_images_from_directory (specification DirSpec) *)

\* the files the scan of the called directory selects, after cap truncation
SelectedFiles ==
    LET scanned == get_sorted_dir_files_from_directory(arg_directory,
                       os_listdir(fs, arg_directory), skip_first_images,
                       select_every_nth, IMG_EXTENSIONS)
    IN IF image_load_cap > 0 THEN TakeFirst(scanned, image_load_cap) ELSE scanned

\* load_images_from_directory has returned its five outputs
DirReturned == pc = "dir_done" /\ ~outcome.raised

\* C11: when load_images_from_directory returns, images, masks and frame count
\* all number the files selected after cap truncation, frame j comes from the
\* j-th selected file, and a selected file that does not decode makes the call
\* raise instead of returning.
Inv_C11_NoFileDropped ==
    /\ DirReturned =>
          LET files == SelectedFiles
          IN /\ Len(outcome.images) = Len(files)
             /\ Len(outcome.masks) = Len(files)
             /\ outcome.frame_count = Len(files)
             /\ \A j \in 1..Len(files) :
                   outcome.images[j].src = files[j] /\ outcome.masks[j].src = files[j]
    /\ (pc = "dir_done" /\ os_path_isdir(fs, arg_directory)) =>
          LET files   == SelectedFiles
              entries == os_listdir(fs, arg_directory)
          IN (\E j \in 1..Len(files) : ~EntryAt(arg_directory, entries, files[j]).decodable)
             => outcome.raised

\* the three images of directory a were returned, one frame each
Wit_C11_ThreeFrames ==
    /\ DirReturned
    /\ arg_directory = S_a
    /\ outcome.frame_count = 3
    /\ Len(outcome.images) = 3

\* geometry of the first selected file
FirstFileSize ==
    LET e == EntryAt(arg_directory, os_listdir(fs, arg_directory), SelectedFiles[1])
    IN <<e.width, e.height>>

\* C12: with size_check every returned image and mask has the geometry of the
\* first selected file, the returned size is that geometry, and the call never
\* raises the error for sizes that differ at concatenation.
Inv_C12_FirstFileGeometry ==
    (pc = "dir_done" /\ arg_size_check) =>
        /\ outcome.raised => outcome.error.type # "ValueError"
        /\ ~outcome.raised =>
              LET size == FirstFileSize
              IN /\ outcome.size = size
                 /\ \A j \in 1..Len(outcome.images) :
                       /\ <<outcome.images[j].width, outcome.images[j].height>> = size
                       /\ <<outcome.masks[j].width, outcome.masks[j].height>> = size

\* directory a was loaded with size_check: its last file, of another size, came
\* back with the geometry of the first
Wit_C12_Resized ==
    /\ DirReturned
    /\ arg_size_check
    /\ arg_directory = S_a
    /\ Len(outcome.images) = 3
    /\ EntryAt(S_a, fs[S_a], outcome.images[3].src).width = 1
    /\ outcome.images[3].width = 2

-----------------------------------------------------------------------------
(* Properties of the change detection (specification ChangedSpec) *)

\* the two evaluations of IS_CHANGED have happened
EvaluatedTwice == pc = "done"

\* slot k names a directory that exists
SlotDirectoryExists(k) ==
    /\ IsConfiguredSlot(node, slots[k])
    /\ ~FullPath(node, slots[k]).raised
    /\ SlotPath(k) # None
    /\ os_path_isdir(fs, SlotPath(k))

\* the files the scan selects in the directories that are configured and exist
SelectedInConfiguration ==
    UNION { Range(Selection(k)) : k \in { j \in 1..path_count : SlotDirectoryExists(j) } }

\* C16: two evaluations of IS_CHANGED with nothing changed in between give the
\* same result, and when one byte of a file selected in a configured directory
\* was changed in between, the second digest differs from the first.
Inv_C16_StableAndSensitive ==
    EvaluatedTwice =>
        /\ between = << >> => digest = prev_digest
        /\ (between # << >> /\ digest.kind = "return") =>
              ( (between[1].op = "write"
                 /\ between[1].filepath \in SelectedInConfiguration)
                => digest # prev_digest )

\* the second of the two selected files of directory a was written between the
\* evaluations, and the digests differ
Wit_C16_SelectedFileWritten ==
    /\ EvaluatedTwice
    /\ slots[1] = <<"a">>
    /\ skip_first_images = 1
    /\ select_every_nth = 1
    /\ image_load_cap = 0
    /\ between = << [op |-> "write", filepath |-> FilePath(S_a, <<"c", ".", "P", "N", "G">>)] >>
    /\ digest.kind = "return"
    /\ digest # prev_digest

\* the bytes of the files selected in slot k's directory, in scan order
ContentSequence(k) ==
    [j \in 1..Len(Selection(k)) |-> content[Selection(k)[j]]]

\* C17 as stated, for two directories that exist and each select a file: when
\* their sequences of selected file contents differ, exchanging the two slots
\* changes the digest.
Orig_C17_OrderChangesDigest ==
    (EvaluatedTwice /\ between = << [op |-> "swap"] >> /\ digest.kind = "return")
    => ( ( /\ SlotDirectoryExists(1)
           /\ SlotDirectoryExists(2)
           /\ ContentSequence(1) # << >>
           /\ ContentSequence(2) # << >>
           /\ ContentSequence(1) # ContentSequence(2) )
         => digest # prev_digest )

\* what load_images_multi gives in the file system of the first evaluation
\* and in the one of the second
LoadBefore ==
    load_images_multi(node, prev_fs, slots, image_load_cap, skip_first_images,
                      select_every_nth)

LoadAfter ==
    load_images_multi(node, fs, slots, image_load_cap, skip_first_images,
                      select_every_nth)

\* the frames of a batch as bytes of their file and geometry
BatchContent(batch, contents) ==
    [k \in 1..Len(batch) |-> [bytes |-> contents[batch[k].src],
                               width |-> batch[k].width, height |-> batch[k].height]]

\* C26 as stated: with the same node inputs, when the file systems of the two
\* evaluations give the same digest, load_images_multi gives the same combined
\* batch and the same frame_counts in both, or fails in both.
Orig_C26_EqualDigestEqualLoad ==
    ( /\ EvaluatedTwice
      /\ between # << [op |-> "swap"] >>
      /\ digest.kind = "return"
      /\ prev_digest.kind = "return"
      /\ digest = prev_digest )
    => LET before == LoadBefore
           after  == LoadAfter
       IN /\ before.kind = after.kind
          /\ before.kind = "return" =>
                /\ before.path_info.frame_counts = after.path_info.frame_counts
                /\ BatchContent(before.images, prev_content)
                      = BatchContent(after.images, content)

-----------------------------------------------------------------------------
(* Properties of the input validation (specification ValidateSpec) *)

\* slots that are taken into account and resolve to a path
ResolvedSlots ==
    { k \in 1..path_count :
        IsConfiguredSlot(node, slots[k]) /\ strip_path(slots[k]) # None }

\* slots that are taken into account but whose text normalises to no path
UnresolvedSlots ==
    { k \in 1..path_count :
        IsConfiguredSlot(node, slots[k]) /\ strip_path(slots[k]) = None }

\* entries of the directory slot k names; none when it does not exist
SlotEntries(k) ==
    LET d == ResolveDir(strip_path(slots[k]))
    IN IF d \in DOMAIN fs THEN fs[d] ELSE << >>

\* slot k's directory holds a regular file with an allowed image extension
SlotHasImage(k) ==
    \E j \in 1..Len(SlotEntries(k)) :
        /\ SlotEntries(k)[j].isfile
        /\ Lower(splitext_ext(SlotEntries(k)[j].name)) \in IMG_EXTENSIONS

\* C18 as stated, for slots that all resolve to a path: VALIDATE_INPUTS returns
\* True only if a slot names a directory that exists and holds a file with an
\* allowed image extension, and returns the error string in every other case.
Orig_C18_NeedsImageFile ==
    (pc = "done" /\ UnresolvedSlots = {}) =>
        ( (~ \E k \in ResolvedSlots : SlotHasImage(k))
          => outcome = [kind |-> "return", value |-> MsgNoValidDirectory] )

\* C18 amended: VALIDATE_INPUTS raises when a slot's text normalises to no
\* path; otherwise it returns True exactly when a slot names a directory that
\* exists and has at least one entry of any kind, and the error string if none does.
Thm_C18_AnyEntryValidates ==
    pc = "done" =>
        IF UnresolvedSlots # {}
        THEN outcome.kind = "raise"
        ELSE IF \E k \in ResolvedSlots : SlotEntries(k) # << >>
        THEN outcome = [kind |-> "return", value |-> PyTrue]
        ELSE outcome = [kind |-> "return", value |-> MsgNoValidDirectory]

\* the only slot names the directory that holds a text file and a sub-directory,
\* and the validation returned True
Wit_C18_NoImageValidates ==
    /\ pc = "done"
    /\ slots = << S_e >>
    /\ ~SlotHasImage(1)
    /\ outcome = [kind |-> "return", value |-> PyTrue]

-----------------------------------------------------------------------------
(* Properties of save_images_multi on its inputs and its outputs           *)
(* (specification SaveSpec)                                                *)

LoadedManifest ==
    /\ \A k \in 1..Len(path_info.frame_counts) : path_info.frame_counts[k] >= 1
    /\ Sum(path_info.frame_counts) = Len(images)

\* C27 as stated: for a manifest of load_images_multi, the output paths of the
\* entries are pairwise distinct, and in images mode every frame of every
\* entry processed so far is on disk under its entry's output.
Orig_C27_DistinctOutputs ==
    LoadedManifest =>
        /\ \A k, l \in 1..Len(output_paths) :
              k # l => output_paths[k] # output_paths[l]
        /\ output_format = "images" =>
              \A k \in 1..Len(output_paths) :
                  \A j \in 1..Len(segments[k].dir_images) :
                      /\ <<output_paths[k], j - 1>> \in DOMAIN disk
                      /\ disk[<<output_paths[k], j - 1>>] = segments[k].dir_images[j]

\* the entry that failed to encode, 0 when none did
FailedEntry ==
    IF pc = "done" /\ outcome.kind = "raise" /\ outcome.error.msg = "ffmpeg failed"
    THEN Len(segments) ELSE 0

\* C28: in mp4 mode the entries are taken in manifest order and the output of
\* each is on disk and listed before the next is taken. When the encoder fails
\* at an entry the call raises and returns no string, the outputs of the
\* entries before it are on disk, and no later entry is taken. When no encoder
\* is found the call raises with nothing written.
Inv_C28_CommitInOrder ==
    output_format = "mp4" =>
        /\ \A k \in 1..Len(segments) : segments[k].dir_name = path_info.directory_names[k]
        /\ \A k \in 1..Len(output_paths) :
              /\ output_paths[k] = ExpectedOutput(k)
              /\ <<output_paths[k]>> \in DOMAIN disk
              /\ \E l \in k..Len(output_paths) :
                    /\ output_paths[l] = output_paths[k]
                    /\ disk[<<output_paths[k]>>] = segments[l].dir_images
        /\ DOMAIN disk = { <<output_paths[k]>> : k \in 1..Len(output_paths) }
        /\ pc = "save_loop" => (Len(segments) = i - 1 /\ Len(output_paths) = i - 1)
        /\ FailedEntry > 0 =>
              /\ outcome.kind # "return"
              /\ i = FailedEntry
              /\ Len(segments) = FailedEntry
              /\ Len(output_paths) = FailedEntry - 1
        /\ (pc = "done" /\ encoder = "missing" /\ ZipLen(path_info) > 0) =>
              /\ outcome.kind = "raise"
              /\ outcome.error.msg = "ffmpeg not found"
              /\ disk = << >>
              /\ output_paths = << >>
        /\ (pc = "done" /\ outcome.kind = "raise" /\ outcome.error.msg = "ffmpeg not found") =>
              /\ encoder = "missing"
              /\ disk = << >>

\* the encoder failed at the second entry: the first entry's video is on disk
\* with its frames and the call raised
Wit_C28_SecondEntryFails ==
    /\ output_format = "mp4"
    /\ FailedEntry = 2
    /\ path_info.directory_names = << <<"a">>, <<"b">> >>
    /\ path_info.frame_counts = <<2, 1>>
    /\ Len(images) = 3
    /\ disk = (<< ExpectedOutput(1) >> :> <<1, 2>>)

-----------------------------------------------------------------------------
(* Properties of the per-file decoding and resizing (specification FileSpec) *)

\* the file has an alpha channel
SourceHasAlpha == source_image.mode \in {"RGBA", "LA"}

\* the alpha sample of the file's pixel at column x of row y
SourceAlpha(x, y) ==
    source_image.pixels[<<x, y>>][Len(source_image.pixels[<<x, y>>])]

\* C21: after decoding and before any resize, the mask has the image's height
\* and width; its value at a pixel is 1 - alpha/255 when the file has an alpha
\* channel (alpha 200 gives 55/255) and 0 when it has none; the image of a
\* colour file keeps its red, green and blue samples, in that order, as
\* sample/255.
Inv_C21_MaskFromAlpha ==
    pc = "decoded" =>
        LET cells == (1..source_image.height) \X (1..source_image.width)
        IN /\ outcome.image.height = source_image.height
           /\ outcome.image.width = source_image.width
           /\ outcome.mask.height = outcome.image.height
           /\ outcome.mask.width = outcome.image.width
           /\ DOMAIN outcome.image.values = cells
           /\ DOMAIN outcome.mask.values = cells
           /\ \A yx \in cells :
                 LET px == source_image.pixels[<<yx[2], yx[1]>>]
                 IN /\ outcome.mask.values[yx] =
                          IF SourceHasAlpha
                          THEN [num |-> 255 - SourceAlpha(yx[2], yx[1]), den |-> 255]
                          ELSE [num |-> 0, den |-> 255]
                    /\ (SourceHasAlpha /\ SourceAlpha(yx[2], yx[1]) = 200)
                          => outcome.mask.values[yx].num = 55
                    /\ source_image.mode \in {"RGB", "RGBA"}
                          => outcome.image.values[yx] =
                               << [num |-> px[1], den |-> 255],
                                  [num |-> px[2], den |-> 255],
                                  [num |-> px[3], den |-> 255] >>

\* a colour file with an alpha channel was decoded: its first pixel has alpha
\* 200 and mask value 55/255, a pixel of its second row has alpha 0 and mask value 1
Wit_C21_Alpha200 ==
    /\ pc = "decoded"
    /\ source_image.mode = "RGBA"
    /\ source_image.height = 2
    /\ source_image.pixels[<<1, 1>>] = <<10, 20, 30, 200>>
    /\ source_image.pixels[<<1, 2>>] = <<255, 0, 128, 0>>
    /\ outcome.mask.values[<<1, 1>>] = [num |-> 55, den |-> 255]
    /\ outcome.mask.values[<<2, 1>>] = [num |-> 255, den |-> 255]

\* the file was resized: size_check is set and its size is not the target's
FileResized ==
    /\ pc = "file_done"
    /\ arg_size_check
    /\ <<source_image.width, source_image.height>> # target_geometry

\* C22: when a file is resized, its mask has the target's width and height and
\* every value of the resized mask is a value of the mask before the resize
\* (nearest-neighbour); the image is resampled by the image filter.
Inv_C22_MaskNearest ==
    FileResized =>
        LET before == DecodeFile(source_image)
        IN /\ outcome.mask.width = target_geometry[1]
           /\ outcome.mask.height = target_geometry[2]
           /\ DOMAIN outcome.mask.values =
                 (1..target_geometry[2]) \X (1..target_geometry[1])
           /\ \A yx \in DOMAIN outcome.mask.values :
                 \E cell \in DOMAIN before.mask.values :
                     outcome.mask.values[yx] = before.mask.values[cell]
           /\ outcome.image.filter = "lanczos"
           /\ outcome.image.of = before.image
           /\ outcome.image.width = target_geometry[1]
           /\ outcome.image.height = target_geometry[2]

\* a file two pixels wide and one high whose mask holds two values was
\* resized to one pixel wide and two high
Wit_C22_TwoValuesResized ==
    /\ FileResized
    /\ source_image.mode = "RGBA"
    /\ source_image.width = 2
    /\ source_image.height = 1
    /\ SourceAlpha(1, 1) # SourceAlpha(2, 1)
    /\ target_geometry = <<1, 2>>
    /\ outcome.mask.values[<<2, 1>>] = [num |-> 255 - SourceAlpha(1, 1), den |-> 255]

-----------------------------------------------------------------------------
(* Properties of the text helpers (specification TextSpec) *)

\* every character of s is in chars
AllIn(s, chars) == \A k \in 1..Len(s) : s[k] \in chars

\* s neither begins nor ends with a character of chars
NoEnd(s, chars) == s = << >> \/ (s[1] \notin chars /\ s[Len(s)] \notin chars)

\* t is r wrapped in single quotes, then double quotes, then whitespace:
\* a run of each kind on either side, of any length and of different lengths on
\* the two sides, each run as long as it can be
Unwraps(t, r) ==
    \E a \in 0..Len(t) : \E b \in 0..(Len(t) - a) :
        LET w == SubSeq(t, a + 1, Len(t) - b)
        IN /\ AllIn(SubSeq(t, 1, a), Whitespace)
           /\ AllIn(SubSeq(t, Len(t) - b + 1, Len(t)), Whitespace)
           /\ NoEnd(w, Whitespace)
           /\ \E c \in 0..Len(w) : \E d \in 0..(Len(w) - c) :
                 LET q == SubSeq(w, c + 1, Len(w) - d)
                 IN /\ AllIn(SubSeq(w, 1, c), {"\""})
                    /\ AllIn(SubSeq(w, Len(w) - d + 1, Len(w)), {"\""})
                    /\ NoEnd(q, {"\""})
                    /\ \E e \in 0..Len(q) : \E g \in 0..(Len(q) - e) :
                          /\ AllIn(SubSeq(q, 1, e), {"'"})
                          /\ AllIn(SubSeq(q, Len(q) - g + 1, Len(q)), {"'"})
                          /\ r = SubSeq(q, e + 1, Len(q) - g)
                          /\ NoEnd(r, {"'"})

\* C23 as stated: strip_path trims the whitespace and then removes exactly one
\* layer of surrounding single or double quotes and nothing more.
Orig_C23_OneQuoteLayer ==
    pc = "stripped" =>
        LET expected == strip_path_OneLayer(text)
        IN /\ outcome.kind = "return"
           /\ IF expected = None THEN outcome.value = None
              ELSE expected = outcome.value

\* C23 amended: strip_path returns None for None; for a string it trims the
\* leading and trailing whitespace, then removes every leading and every
\* trailing double quote, then every leading and every trailing single quote,
\* paired or not, and returns what is left, or None when nothing is left; it
\* does not raise.
Thm_C23_AllOuterQuotes ==
    pc = "stripped" =>
        /\ outcome.kind = "return"
        /\ IF text = None THEN outcome.value = None
           ELSE Unwraps(text, IF outcome.value = None THEN << >> ELSE outcome.value)

\* a name inside two opening and one closing double quote was stripped to the name
Wit_C23_TwoLayers ==
    /\ pc = "stripped"
    /\ text # None
    /\ text = <<"\"", "\"", "a", "\"">>
    /\ outcome.value = <<"a">>

\* C24: the result of sanitize_filename holds none of < > : " / \ | ? *, each
\* of their occurrences being replaced by one '_' and every other character
\* kept; it neither begins nor ends with a space or a dot; sanitizing the
\* result again gives the same result.
Inv_C24_Sanitized ==
    /\ pc = "sanitized" =>
          LET r == outcome.value
          IN /\ \A k \in 1..Len(r) : r[k] \notin InvalidChars
             /\ NoEnd(r, {" ", "."})
             /\ \E a \in 0..(Len(text) - Len(r)) :
                   /\ AllIn(SubSeq(text, 1, a), {" ", "."})
                   /\ AllIn(SubSeq(text, a + Len(r) + 1, Len(text)), {" ", "."})
                   /\ \A k \in 1..Len(r) :
                         r[k] = IF text[a + k] \in InvalidChars THEN "_" ELSE text[a + k]
    /\ pc = "sanitized_twice" => outcome.value = outcome.once

\* a name with a colon inside and a dot and a space around it was sanitized,
\* and sanitized again
Wit_C24_ColonAndDot ==
    /\ pc = "sanitized_twice"
    /\ text = <<".", "a", ":", " ">>
    /\ outcome.once = <<"a", "_">>
    /\ outcome.value = <<"a", "_">>

====
